---- MODULE Spec2Model ----
(***************************************************************************)
(* Mastermind (jehaj/mestersind, src/main.rs): the hint computation        *)
(* get_hints, the win test is_correct, the input validation                *)
(* validate_guess / get_colors and the game loop of main.                  *)
(***************************************************************************)
EXTENDS Integers, Sequences, FiniteSets, TLC

VARIABLES code, attempts, history, pc, input, output, reported, guess, hints, correct

vars == <<code, attempts, history, pc, input, output, reported, guess, hints, correct>>

-----------------------------------------------------------------------------
(* Program constants *)

\* let n = 12;
n == 12

\* for _ in 0..5 in get_code, [false; 5] in get_hints, size != 5 in validate_guess
CodeLen == 5

\* color_choices of get_code, in the order of enum Color
color_choices ==
  <<"Red", "Brown", "Yellow", "Green", "Black", "White", "Orange", "Blue", "None">>

Color == {color_choices[k] : k \in 1..Len(color_choices)}

\* enum Hint, with the rank its derived Ord gives each variant
Hint == {"CorrectlyPlaced", "CorrectColorButWrong"}

HintRank(h) == IF h = "CorrectlyPlaced" THEN 0 ELSE 1

\* const COLOR_SET of validate_guess
COLOR_SET ==
  {"red", "brown", "yellow", "green", "black", "white", "orange", "blue", "none"}

-----------------------------------------------------------------------------
(* Bounds of the model *)

\* the universally enumerated guesses and codes use the first NumColors colours
NumColors == 3

\* the secrets of the game loop are the first NumCodes entries of CodePool
NumCodes == 3

-----------------------------------------------------------------------------
(* Scoring engine *)

\* hints.sort(): Vec<Hint> sorted by the derived Ord (stable)
SortHints(hs) ==
  SelectSeq(hs, LAMBDA h : HintRank(h) = 0) \o SelectSeq(hs, LAMBDA h : HintRank(h) = 1)

\* variant of FirstPass: the loop starts at the second position
RECURSIVE FirstPass_SkipFirst(_, _, _)
FirstPass_SkipFirst(g, c, i) ==
  IF i <= 1 THEN [hints |-> <<>>, used |-> [k \in 1..CodeLen |-> FALSE]]
  ELSE LET prev == FirstPass_SkipFirst(g, c, i - 1)
       IN  IF g[i] = c[i]
           THEN [hints |-> Append(prev.hints, "CorrectlyPlaced"),
                 used  |-> [prev.used EXCEPT ![i] = TRUE]]
           ELSE prev

\* variant of FirstPass: the exact matches are reported but not marked as used
RECURSIVE FirstPass_NoMark(_, _, _)
FirstPass_NoMark(g, c, i) ==
  IF i = 0 THEN [hints |-> <<>>, used |-> [k \in 1..CodeLen |-> FALSE]]
  ELSE LET prev == FirstPass_NoMark(g, c, i - 1)
       IN  IF g[i] = c[i]
           THEN [hints |-> Append(prev.hints, "CorrectlyPlaced"), used |-> prev.used]
           ELSE prev

\* first loop of get_hints: state <<hints, used>> after positions 1..i
RECURSIVE FirstPass(_, _, _)
FirstPass(g, c, i) ==
  IF i = 0 THEN [hints |-> <<>>, used |-> [k \in 1..CodeLen |-> FALSE]]
  ELSE LET prev == FirstPass(g, c, i - 1)
       IN  IF g[i] = c[i]
           THEN [hints |-> Append(prev.hints, "CorrectlyPlaced"),
                 used  |-> [prev.used EXCEPT ![i] = TRUE]]
           ELSE prev

\* zip(code, used).enumerate().filter(color == code && !used).next():
\* the lowest index of an unused position of the code holding the colour, 0 if none
FindUnused(color, c, used) ==
  LET hits == {j \in 1..Len(c) : c[j] = color /\ ~used[j]}
  IN  IF hits = {} THEN 0 ELSE CHOOSE j \in hits : \A k \in hits : j <= k

\* variant of SecondStep: the matched position of the code is not marked as used
SecondStep_NoMark(g, c, i, st) ==
  IF g[i] = c[i] THEN st
  ELSE LET j == FindUnused(g[i], c, st.used)
       IN  IF j = 0 THEN st
           ELSE [hints |-> Append(st.hints, "CorrectColorButWrong"), used |-> st.used]

\* body of the second loop of get_hints for guess position i
SecondStep(g, c, i, st) ==
  IF g[i] = c[i] THEN st
  ELSE LET j == FindUnused(g[i], c, st.used)
       IN  IF j = 0 THEN st
           ELSE [hints |-> Append(st.hints, "CorrectColorButWrong"),
                 used  |-> [st.used EXCEPT ![j] = TRUE]]

\* second loop of get_hints: state after positions 1..i
RECURSIVE SecondPass(_, _, _, _)
SecondPass(g, c, i, st0) ==
  IF i = 0 THEN st0
  ELSE SecondStep(g, c, i, SecondPass(g, c, i - 1, st0))

\* variant of get_hints: one pass, a colour found anywhere in the code is a colour match
get_hints_OnePass(g, c) ==
  SortHints(
    FirstPass(g, c, Len(g)).hints
    \o [k \in 1..Cardinality({i \in 1..Len(g) : \E j \in 1..Len(c) : c[j] = g[i]})
          |-> "CorrectColorButWrong"])

get_hints(g, c) ==
  SortHints(SecondPass(g, c, Len(g), FirstPass(g, c, Len(g))).hints)

\* zip(guess, code).fold(true, |acc, (guess, code)| guess == code && acc)
RECURSIVE FoldEqual(_, _, _)
FoldEqual(g, c, i) ==
  IF i = 0 THEN TRUE ELSE (g[i] = c[i]) /\ FoldEqual(g, c, i - 1)

\* variant of is_correct: the fold drops its accumulator
is_correct_LastOnly(g, c) ==
  IF Len(g) # Len(c) THEN FALSE ELSE Len(g) = 0 \/ g[Len(g)] = c[Len(g)]

is_correct(g, c) ==
  IF Len(g) # Len(c) THEN FALSE ELSE FoldEqual(g, c, Len(g))

-----------------------------------------------------------------------------
(* Input text.  A String is modelled as a sequence of atoms: a word (a run  *)
(* of letters) or one whitespace character.                                *)

Whitespace == {" ", "\t", "\n"}

\* the lower-case colour names, in the order of color_choices
color_names ==
  <<"red", "brown", "yellow", "green", "black", "white", "orange", "blue", "none">>

\* str::to_lowercase on one word: the capitalised and upper-case spellings of
\* the colour names map to the lower-case name, every other atom is unchanged
LowerWord(w) ==
  IF \E k \in 1..Len(color_choices) : color_choices[k] = w
  THEN color_names[CHOOSE k \in 1..Len(color_choices) : color_choices[k] = w]
  ELSE CASE w = "BLUE" -> "blue"
         [] w = "RED"  -> "red"
         [] OTHER      -> w

\* String::to_lowercase
to_lowercase(s) == [k \in 1..Len(s) |-> LowerWord(s[k])]

RECURSIVE trim_start(_)
trim_start(s) ==
  IF s # <<>> /\ Head(s) \in Whitespace THEN trim_start(Tail(s)) ELSE s

RECURSIVE trim_end(_)
trim_end(s) ==
  IF s # <<>> /\ s[Len(s)] \in Whitespace
  THEN trim_end(SubSeq(s, 1, Len(s) - 1)) ELSE s

\* str::trim
trim(s) == trim_end(trim_start(s))

\* str::split(" "): the pieces between single spaces, empty pieces included
RECURSIVE split_space(_)
split_space(s) ==
  LET at == {k \in 1..Len(s) : s[k] = " "}
  IN  IF at = {} THEN <<s>>
      ELSE LET k == CHOOSE j \in at : \A m \in at : j <= m
           IN  <<SubSeq(s, 1, k - 1)>> \o split_space(SubSeq(s, k + 1, Len(s)))

\* str::split_whitespace: the maximal runs of non-whitespace atoms
RECURSIVE split_whitespace(_)
split_whitespace(s) ==
  LET t == trim_start(s)
      ws == {k \in 1..Len(t) : t[k] \in Whitespace}
  IN  IF t = <<>> THEN <<>>
      ELSE IF ws = {} THEN <<t>>
      ELSE LET k == CHOOSE j \in ws : \A m \in ws : j <= m
           IN  <<SubSeq(t, 1, k - 1)>> \o split_whitespace(SubSeq(t, k + 1, Len(t)))

\* a piece of a split is one of the strings of COLOR_SET
InColorSet(piece) == Len(piece) = 1 /\ piece[1] \in COLOR_SET

validate_guess(g) ==
  LET colors == split_space(g)
  IN  IF Len(colors) # CodeLen THEN FALSE
      ELSE \A k \in 1..Len(colors) : InColorSet(colors[k])

\* string_to_color: lower-cases its input, panics on anything but a colour name
string_to_color(piece) ==
  LET w == IF Len(piece) = 1 THEN LowerWord(piece[1]) ELSE "?"
  IN  IF \E k \in 1..Len(color_names) : color_names[k] = w
      THEN color_choices[CHOOSE k \in 1..Len(color_names) : color_names[k] = w]
      ELSE "panic"

get_colors(text) ==
  LET pieces == split_whitespace(text)
  IN  [k \in 1..Len(pieces) |-> string_to_color(pieces[k])]

-----------------------------------------------------------------------------
(* Inputs of the model *)

\* the line read_line returns for the given words typed with single spaces
RECURSIVE Join(_)
Join(ws) ==
  IF Len(ws) = 0 THEN <<>>
  ELSE IF Len(ws) = 1 THEN <<ws[1]>>
  ELSE <<ws[1], " ">> \o Join(Tail(ws))

Line(ws) == Join(ws) \o <<"\n">>

\* secrets get_code may draw
CodePool ==
  << <<"Red", "Blue", "Green", "Black", "White">>,
     <<"Blue", "Blue", "Blue", "Blue", "Blue">>,
     <<"Red", "Red", "Blue", "Green", "None">>,
     <<"Red", "Black", "None", "Red", "Green">>,
     <<"None", "None", "Orange", "Yellow", "Brown">> >>

Secrets == {CodePool[k] : k \in 1..NumCodes}

\* lines the player types that pass validate_guess
ValidLines ==
  { Line(<<"Blue", "Blue", "Blue", "Blue", "Blue">>),
    Line(<<"red", "blue", "green", "black", "white">>),
    <<" ">> \o Line(<<"RED", "blue", "Green", "black", "white">>) }

\* lines the player types that fail validate_guess
InvalidLines ==
  { <<"\n">>,
    Line(<<"red", "blue", "green", "black">>),
    Line(<<"red", "blue", "green", "black", "white", "none">>),
    Line(<<"red", "blue", "purple", "black", "white">>),
    <<"red", " ", " ", "blue", " ", "green", " ", "black", " ", "white", "\n">>,
    <<"red", "\t", "blue", " ", "green", " ", "black", " ", "white", " ", "none", "\n">> }

Lines == ValidLines \cup InvalidLines

\* every code over the first NumColors colours
SmallCodes == [1..CodeLen -> {color_choices[k] : k \in 1..NumColors}]

\* <<guess, code>> pairs that use colours beyond the first NumColors
NamedPairs ==
  { <<CodePool[2], CodePool[1]>>,
    << <<"Red", "Blue", "Blue", "Blue", "Blue">>, CodePool[3] >>,
    <<CodePool[5], <<"Orange", "None", "None", "Brown", "Red">> >>,
    <<CodePool[4], CodePool[4]>>,
    <<CodePool[4], <<"Black", "Red", "Green", "None", "Red">> >> }

ScoreInputs == (SmallCodes \X SmallCodes) \cup NamedPairs

-----------------------------------------------------------------------------
(* The game loop of main *)

Init ==
  /\ code \in Secrets
  /\ attempts = 0
  /\ history = <<>>
  /\ pc = "AwaitingGuess"
  /\ input = <<>>
  /\ output = "welcome"
  /\ reported = 0
  /\ guess = <<>>
  /\ hints = <<>>
  /\ correct = FALSE

\* the text of a line as main sees it: input.trim().to_lowercase()
Cleaned(line) == to_lowercase(trim(line))

\* what main computes from each line the player may type and each secret
Parsed ==
  [line \in Lines |->
     [valid |-> validate_guess(Cleaned(line)),
      guess |-> get_colors(Cleaned(line))]]

\* variant of InvalidGuess: the attempt is counted before the line is validated
InvalidGuess_Counted(line) ==
  /\ pc = "AwaitingGuess"
  /\ attempts < n
  /\ ~Parsed[line].valid
  /\ input' = line
  /\ output' = "invalid"
  /\ attempts' = attempts + 1
  /\ pc' = IF attempts + 1 < n THEN "AwaitingGuess" ELSE "Exhausted"
  /\ UNCHANGED <<code, history, reported, guess, hints, correct>>

\* one iteration of the while loop that ends in `continue`
InvalidGuess(line) ==
  /\ pc = "AwaitingGuess"
  /\ attempts < n
  /\ ~Parsed[line].valid
  /\ input' = line
  /\ output' = "invalid"
  /\ UNCHANGED <<code, attempts, history, pc, reported, guess, hints, correct>>

\* variant of CorrectGuess: the message is printed before the attempt is counted
CorrectGuess_ReportEarly(line) ==
  /\ pc = "AwaitingGuess"
  /\ attempts < n
  /\ Parsed[line].valid
  /\ is_correct(Parsed[line].guess, code)
  /\ attempts' = attempts + 1
  /\ input' = line
  /\ output' = "correct"
  /\ reported' = attempts
  /\ pc' = "Won"
  /\ UNCHANGED <<code, history, guess, hints, correct>>

\* one iteration of the while loop that ends in `break`
CorrectGuess(line) ==
  /\ pc = "AwaitingGuess"
  /\ attempts < n
  /\ Parsed[line].valid
  /\ is_correct(Parsed[line].guess, code)
  /\ attempts' = attempts + 1
  /\ input' = line
  /\ output' = "correct"
  /\ reported' = attempts + 1
  /\ pc' = "Won"
  /\ UNCHANGED <<code, history, guess, hints, correct>>

\* variant of WrongGuess: the guess is scored but not pushed to the history
WrongGuess_NoPush(line) ==
  /\ pc = "AwaitingGuess"
  /\ attempts < n
  /\ Parsed[line].valid
  /\ ~is_correct(Parsed[line].guess, code)
  /\ attempts' = attempts + 1
  /\ input' = line
  /\ output' = "incorrect"
  /\ pc' = IF attempts + 1 < n THEN "AwaitingGuess" ELSE "Exhausted"
  /\ UNCHANGED <<code, history, reported, guess, hints, correct>>

\* variant of WrongGuess: the loop runs while attempts <= n
WrongGuess_OneMore(line) ==
  /\ pc = "AwaitingGuess"
  /\ attempts <= n
  /\ Parsed[line].valid
  /\ ~is_correct(Parsed[line].guess, code)
  /\ attempts' = attempts + 1
  /\ input' = line
  /\ output' = "incorrect"
  /\ history' = Append(history, <<Parsed[line].guess,
                                  get_hints(Parsed[line].guess, code)>>)
  /\ pc' = IF attempts + 1 <= n THEN "AwaitingGuess" ELSE "Exhausted"
  /\ UNCHANGED <<code, reported, guess, hints, correct>>

\* one iteration of the while loop that runs to its end, and the loop test after it
WrongGuess(line) ==
  /\ pc = "AwaitingGuess"
  /\ attempts < n
  /\ Parsed[line].valid
  /\ ~is_correct(Parsed[line].guess, code)
  /\ attempts' = attempts + 1
  /\ input' = line
  /\ output' = "incorrect"
  /\ history' = Append(history, <<Parsed[line].guess,
                                  get_hints(Parsed[line].guess, code)>>)
  /\ pc' = IF attempts + 1 < n THEN "AwaitingGuess" ELSE "Exhausted"
  /\ UNCHANGED <<code, reported, guess, hints, correct>>

Next ==
  \/ \E line \in Lines : InvalidGuess(line)
  \/ \E line \in Lines : CorrectGuess(line)
  \/ \E line \in Lines : WrongGuess(line)

Spec == Init /\ [][Next]_vars

-----------------------------------------------------------------------------
(* The scoring engine and the win test applied to every input pair *)

InitScore ==
  /\ \E pair \in ScoreInputs : guess = pair[1] /\ code = pair[2]
  /\ hints = <<>>
  /\ correct = FALSE
  /\ pc = "args"
  /\ attempts = 0
  /\ history = <<>>
  /\ input = <<>>
  /\ output = "welcome"
  /\ reported = 0

CallGetHints ==
  /\ pc = "args"
  /\ hints' = get_hints(guess, code)
  /\ pc' = "hinted"
  /\ UNCHANGED <<code, attempts, history, input, output, reported, guess, correct>>

CallIsCorrect ==
  /\ pc = "hinted"
  /\ correct' = is_correct(guess, code)
  /\ pc' = "judged"
  /\ UNCHANGED <<code, attempts, history, input, output, reported, guess, hints>>

NextScore == CallGetHints \/ CallIsCorrect

SpecScore == InitScore /\ [][NextScore]_vars

-----------------------------------------------------------------------------
(* Properties of the scoring engine, checked under SpecScore *)

Count(hs, kind) == Len(SelectSeq(hs, LAMBDA h : h = kind))

Min(a, b) == IF a <= b THEN a ELSE b

\* the positions that are not exact matches
NotExact(g, c) == {i \in 1..Len(g) : g[i] # c[i]}

\* occurrences of a colour in a sequence at the given positions
Occ(seq, col, pos) == Cardinality({i \in pos : seq[i] = col})

\* sum over the first k colours c of min(occurrences of c in the guess, occurrences
\* of c in the code), both counted at the positions that are not exact matches
RECURSIVE SupplyBound(_, _, _)
SupplyBound(g, c, k) ==
  IF k = 0 THEN 0
  ELSE Min(Occ(g, color_choices[k], NotExact(g, c)),
           Occ(c, color_choices[k], NotExact(g, c)))
       + SupplyBound(g, c, k - 1)

Scored == pc \in {"hinted", "judged"}

AllBlue == <<"Blue", "Blue", "Blue", "Blue", "Blue">>

\* C1: the number of CorrectColorButWrong hints of get_hints never exceeds the sum
\* over all colours of min(occurrences in the guess, occurrences in the code), both
\* counted at the positions that are not exact matches.
C1_ColorMatchWithinSupply ==
  Scored => Count(hints, "CorrectColorButWrong")
              <= SupplyBound(guess, code, Len(color_choices))

\* a scored guess that repeats a colour more often than the code can supply it
C1_Witness ==
  /\ Scored
  /\ Count(hints, "CorrectColorButWrong") >= 1
  /\ \E col \in Color :
       /\ Occ(code, col, NotExact(guess, code)) >= 1
       /\ Occ(guess, col, NotExact(guess, code)) > Occ(code, col, NotExact(guess, code))

\* C2: the number of CorrectlyPlaced hints of get_hints is exactly the number of
\* positions i with guess[i] = code[i].
C2_ExactMatchCount ==
  Scored => Count(hints, "CorrectlyPlaced")
              = Cardinality({i \in 1..Len(guess) : guess[i] = code[i]})

\* a scored guess with an exact match at the first position and colour matches too
C2_Witness ==
  /\ Scored
  /\ guess[1] = code[1]
  /\ Count(hints, "CorrectlyPlaced") \in 2..(CodeLen - 1)
  /\ Count(hints, "CorrectColorButWrong") >= 1

\* C3: get_hints returns at most L hints in total.
C3_TotalAtMostLen == Scored => Len(hints) <= CodeLen

\* a scored guess that gets the full L hints, of both kinds
C3_Witness ==
  /\ Scored
  /\ Len(hints) = CodeLen
  /\ Count(hints, "CorrectlyPlaced") >= 1
  /\ Count(hints, "CorrectColorButWrong") >= 1

\* C4 as stated: guess [Blue x5] against secret [Red, Blue, Green, Black, White]
\* yields exactly 1 CorrectColorButWrong hint and 0 CorrectlyPlaced hints.
C4_AsStated ==
  (Scored /\ guess = AllBlue /\ code = CodePool[1])
    => /\ Count(hints, "CorrectColorButWrong") = 1
       /\ Count(hints, "CorrectlyPlaced") = 0

\* C4 amended: that guess against that secret yields exactly 1 CorrectlyPlaced hint
\* (position 2 of the secret is Blue) and 0 CorrectColorButWrong hints.
C4_OneExactNoColor ==
  (Scored /\ guess = AllBlue /\ code = CodePool[1])
    => hints = <<"CorrectlyPlaced">>

C4_Witness == pc = "hinted" /\ guess = AllBlue /\ code = CodePool[1]

\* C5 as stated: guess [Red, Blue, Blue, Blue, Blue] against secret
\* [Red, Red, Blue, Green, None] yields exactly 1 CorrectlyPlaced hint and exactly
\* 1 CorrectColorButWrong hint, 2 hints in total.
C5_AsStated ==
  (Scored /\ guess = <<"Red", "Blue", "Blue", "Blue", "Blue">> /\ code = CodePool[3])
    => /\ Count(hints, "CorrectlyPlaced") = 1
       /\ Count(hints, "CorrectColorButWrong") = 1
       /\ Len(hints) = 2

\* C5 amended: that guess against that secret yields exactly 2 CorrectlyPlaced hints
\* (positions 1 and 3) and 0 CorrectColorButWrong hints, 2 hints in total.
C5_TwoExactNoColor ==
  (Scored /\ guess = <<"Red", "Blue", "Blue", "Blue", "Blue">> /\ code = CodePool[3])
    => hints = <<"CorrectlyPlaced", "CorrectlyPlaced">>

C5_Witness ==
  pc = "hinted" /\ guess = <<"Red", "Blue", "Blue", "Blue", "Blue">> /\ code = CodePool[3]

\* C10: is_correct(guess, code) is true exactly when get_hints(guess, code) holds
\* L CorrectlyPlaced hints.
C10_WinTestAgreesWithHints ==
  pc = "judged" => (correct <=> Count(hints, "CorrectlyPlaced") = CodeLen)

\* a judged guess that is wrong only in its first position
C10_Witness ==
  /\ pc = "judged"
  /\ ~correct
  /\ Count(hints, "CorrectlyPlaced") = CodeLen - 1
  /\ guess[1] # code[1]

-----------------------------------------------------------------------------
(* Properties of the game loop, checked under Spec.  In every step of Spec  *)
(* that changes the state, input' is the line that step has read.          *)

\* the guess a line is parsed to
GuessOf(line) == get_colors(Cleaned(line))

\* a line that is not exactly 5 whitespace-separated tokens, or holds a token that
\* is not the name of a colour in any letter case
NotAGuess(line) ==
  LET tokens == split_whitespace(line)
  IN  \/ Len(tokens) # CodeLen
      \/ \E k \in 1..Len(tokens) :
           ~(Len(tokens[k]) = 1 /\ LowerWord(tokens[k][1]) \in COLOR_SET)

NoneCorrect == \A k \in 1..Len(history) : history[k][1] # code

\* C6 as stated: after any sequence of submissions the history length equals the
\* attempt counter.
C6_AsStated == Len(history) = attempts

C6_Records ==
  /\ Len(history) = (IF pc = "Won" THEN attempts - 1 ELSE attempts)
  /\ \A k \in 1..Len(history) :
       /\ Len(history[k][1]) = CodeLen
       /\ history[k][2] = get_hints(history[k][1], code)

C6_Step ==
  validate_guess(Cleaned(input')) =>
    /\ attempts' = attempts + 1
    /\ IF GuessOf(input') = code
       THEN history' = history
       ELSE /\ Len(history') = Len(history) + 1
            /\ SubSeq(history', 1, Len(history)) = history
            /\ history'[Len(history')][1] = GuessOf(input')

\* C6 amended: every validated guess increments the attempt counter by exactly 1; a
\* validated guess that differs from the secret is scored against the secret and
\* appends exactly one record (the guess with its hints) to the history, while the
\* guess that equals the secret is not recorded; hence the history length equals the
\* attempt counter until the game is won and the attempt counter minus 1 after that.
C6_HistoryTracksWrongGuesses == []C6_Records /\ [][C6_Step]_vars

\* a won game whose history holds the wrong guesses made before the winning one
C6_Witness == pc = "Won" /\ attempts = 3 /\ Len(history) = 2

\* C7: the attempt counter stays between 0 and n, and once a correct guess has been
\* submitted or the counter has reached n no further guess is read, scored or recorded.
C7_BoundedAndTerminal ==
  /\ [](/\ attempts \in 0..n
        /\ (pc = "AwaitingGuess" => attempts < n /\ output # "correct"))
  /\ [][~(output = "correct" \/ attempts >= n)]_vars

\* the attempts are used up without a win
C7_Witness == pc = "Exhausted" /\ attempts = n /\ Len(history) = n /\ NoneCorrect

C8_Step ==
  /\ NotAGuess(input') =>
       /\ pc = "AwaitingGuess" /\ pc' = "AwaitingGuess"
       /\ attempts' = attempts
       /\ history' = history
       /\ code' = code
  /\ (attempts = 0 /\ validate_guess(Cleaned(input'))) => attempts' = 1

\* C8: a line that is not a guess (not exactly 5 tokens, or a token outside the
\* colour set) leaves the session awaiting a guess with the attempt counter, the
\* history and the secret unchanged, so the first validated guess is attempt 1.
C8_InvalidGuessIsFree == [][C8_Step]_vars

\* a fresh session that has just rejected a line
C8_Witness ==
  /\ NotAGuess(input)
  /\ input # <<>>
  /\ output = "invalid"
  /\ attempts = 0
  /\ pc = "AwaitingGuess"

C9_Outcome ==
  /\ NoneCorrect
  /\ pc = "Won" =>
       /\ GuessOf(input) = code
       /\ attempts \in 1..n
       /\ Len(history) = attempts - 1
       /\ reported = attempts
  /\ pc = "Exhausted" => attempts = n /\ Len(history) = n /\ reported = 0
  /\ pc = "AwaitingGuess" => attempts < n /\ reported = 0

C9_Step ==
  validate_guess(Cleaned(input')) =>
    IF GuessOf(input') = code
    THEN pc' = "Won" /\ reported' = attempts + 1
    ELSE pc' = (IF attempts + 1 = n THEN "Exhausted" ELSE "AwaitingGuess")

\* C9: when the k-th validated guess is the first that equals the secret the game
\* ends as won and reports k, also for k = n; when n validated guesses are all wrong
\* the game ends as exhausted after the n-th.
C9_WonOrExhausted == []C9_Outcome /\ [][C9_Step]_vars

\* a game won with the last attempt
C9_Witness == pc = "Won" /\ reported = n /\ Len(history) = n - 1

====
